---- MODULE Spec2Model ----
(***************************************************************************)
(* A model of src/src/sodium/gc.rs: the reference-counting collector with  *)
(* synchronous trial-deletion cycle collection (Bacon et al.).             *)
(*                                                                         *)
(* The heap is a map from node identities to Node records. Every routine   *)
(* of GcCtx runs as a frame on an explicit call stack, one step per loop   *)
(* iteration or straight-line block, so that the states inside a release   *)
(* cascade and inside collect_cycles are states of the model.              *)
(*                                                                         *)
(* Payloads (Node.data) are opaque values that own no handle, so that      *)
(* system_free runs no further collector code.                             *)
(*                                                                         *)
(* A read of a freed Node is undefined behaviour. It is modelled as a read *)
(* that yields any Node record of GarbageNodes (the stale record is one of *)
(* them), a write to a freed Node is lost, and the process may instead     *)
(* stop (crash). Node identities are never reused.                         *)
(***************************************************************************)
EXTENDS Integers, Sequences, FiniteSets, TLC

\* ---------------------------------------------------------------- bounds

\* Nodes that new_gc may allocate in one run.
MaxNodes == 3

\* Strong handles that may refer to one node at a time.
MaxHandles == 2

\* WeakNodes that downgrade may allocate in one run.
MaxWeak == 2

\* Reads of freed memory a run survives; the next one stops the process.
MaxUB == 2

\* Public calls (new_gc, clone, drop, ...) made in one run.
MaxOps == 7

\* Public calls made in one run of the deep specification (SpecDeep).
MaxDeepOps == 10

\* Public calls made in one run of the fair specification (FairSpec).
MaxFairOps == 6

\* The free counter of a node saturates here (2 or more: freed twice).
FreeCap == 2

Nodes == 1..MaxNodes

WeakIds == 1..MaxWeak

\* Option::None of WeakNode.node, and the unused node slot of a frame.
None == 0

Colours == {"Black", "Purple", "White", "Gray"}

VARIABLES
    nodes,      \* the heap: node -> Node record
    nalloc,     \* nodes allocated so far (identities 1..nalloc)
    freed,      \* node -> how many times system_free was called on it
    handles,    \* node -> live strong handles (Gc) referring to it
    weak,       \* weak id -> [st, node]: the WeakNode owned by a GcWeak
    nweak,      \* WeakNodes allocated so far
    roots,      \* GcCtx.roots
    auto_collect_cycles_on_decrement, \* GcCtx.auto_collect_cycles_on_decrement
    stack,      \* the call stack, innermost frame last
    ub,         \* reads of freed memory so far
    crashed,    \* the process stopped on an access to freed memory
    cyclic,     \* history: some add_child call closed a cycle of edges
    pre,        \* history: the heap and free counters when collect_cycles began
    ops,        \* public calls made so far
    budget,     \* what one run may spend: public calls, reads of freed memory
    deferred    \* history: nodes whose count reached zero while buffered

vars == <<nodes, nalloc, freed, handles, weak, nweak, roots,
          auto_collect_cycles_on_decrement, stack, ub, crashed, cyclic, pre,
          ops, budget, deferred>>

\* ------------------------------------------------------- sequence helpers

Range(seq) == {seq[k] : k \in 1..Len(seq)}

\* Vec::contains
Contains(seq, x) == x \in Range(seq)

\* Mutant of Retain: the negation is missing, the entry itself is kept.
Retain_inverted(seq, x) == SelectSeq(seq, LAMBDA y : y = x)

\* Vec::retain(|y| !ptr::eq(y, x))
Retain(seq, x) == SelectSeq(seq, LAMBDA y : y # x)

NoDup(seq) == \A j, k \in 1..Len(seq) : j # k => seq[j] # seq[k]

\* ------------------------------------------------------------------ heap

\* The Node that new_gc builds.
NewNode ==
    [count |-> 1, colour |-> "Black", buffered |-> FALSE,
     children |-> <<>>, weak_nodes |-> <<>>]

\* What the model keeps for a node whose memory was returned to the
\* allocator: nothing is known about it, reads go through View.
FreedNode ==
    [count |-> 0, colour |-> "Black", buffered |-> FALSE,
     children |-> <<>>, weak_nodes |-> <<>>]

IsFreed(s) == freed[s] > 0

Allocated == 1..nalloc

Live == {n \in Allocated : ~IsFreed(n)}

\* The declared edges: what the children lists of the heap hold.
ChildrenOf(n) == Range(nodes[n].children)

RECURSIVE ReachFrom(_, _)
\* The nodes reached from the set S along at most k more edges.
ReachFrom(S, k) ==
    IF k = 0 THEN S
    ELSE ReachFrom(S \cup UNION {ChildrenOf(n) : n \in S}, k - 1)

\* Node a reaches node b along declared edges (every node reaches itself).
Reaches(a, b) == b \in ReachFrom({a}, MaxNodes)

\* The counts a read of freed memory may yield: one for every outcome of the
\* tests the collector makes on a count (== 1, == 0, > 0, < 0).
GarbageCounts == {-1, 0, 1, 2}

GarbageChildren == {<<>>} \cup {<<m>> : m \in Allocated}

GarbageNodes ==
    [count : GarbageCounts, colour : Colours, buffered : BOOLEAN,
     children : GarbageChildren, weak_nodes : {<<>>}]

\* What `unsafe { &mut *s }` yields.
View(s) == IF IsFreed(s) THEN GarbageNodes ELSE {nodes[s]}

\* A write through `&mut *s`.
Store(h, s, r) == IF IsFreed(s) THEN h ELSE [h EXCEPT ![s] = r]

\* The step dereferences the nodes of S: one more read of freed memory when
\* one of them is freed.
Touch(S) ==
    LET k == IF \E s \in S : IsFreed(s) THEN 1 ELSE 0
    IN  /\ ub + k <= budget.ub
        /\ ub' = ub + k

\* ----------------------------------------------------------------- stack

Frame(fn, s, i, snap) == [fn |-> fn, s |-> s, i |-> i, snap |-> snap]

Top == stack[Len(stack)]

Rest == SubSeq(stack, 1, Len(stack) - 1)

Idle == stack = <<>> /\ ~crashed

\* A public call begins: the process is idle and the run has calls left.
Enter ==
    /\ Idle
    /\ ops < budget.ops
    /\ ops' = ops + 1
    /\ UNCHANGED <<budget, deferred>>

Running(fn) == stack # <<>> /\ ~crashed /\ Top.fn = fn

\* The frame moves to its next loop index.
Advance == [Top EXCEPT !.i = @ + 1]

Call(fn, s) == Rest \o <<Advance, Frame(fn, s, 0, <<>>)>>

NoPre ==
    [count |-> [n \in Nodes |-> 0], freed |-> [n \in Nodes |-> 0],
     children |-> [n \in Nodes |-> <<>>]]

\* The state GcCtx::new leaves: no node, no handle, an empty root buffer.
InitCtx ==
    /\ nodes = [n \in Nodes |-> NewNode]
    /\ nalloc = 0
    /\ freed = [n \in Nodes |-> 0]
    /\ handles = [n \in Nodes |-> 0]
    /\ weak = [w \in WeakIds |-> [st |-> "none", node |-> None]]
    /\ nweak = 0
    /\ roots = <<>>
    /\ auto_collect_cycles_on_decrement = TRUE
    /\ stack = <<>>
    /\ ub = 0
    /\ crashed = FALSE
    /\ cyclic = FALSE
    /\ pre = NoPre
    /\ ops = 0
    /\ deferred = {}

Init ==
    /\ InitCtx
    /\ budget = [ops |-> MaxOps, ub |-> MaxUB]

\* The deep specification: longer runs of the calls that build and drop a
\* graph (new_gc, clone, add_child, drop), each of which stops at its first
\* access to freed memory. Its behaviours are behaviours of the program; it
\* is used to reach states, never to show that none is reached.
InitDeep ==
    /\ InitCtx
    /\ budget = [ops |-> MaxDeepOps, ub |-> 0]

\* ------------------------------------------------- GcCtx: count primitives

\* GcCtx::increment, on the record v read through s.
increment(v) == [v EXCEPT !.count = @ + 1, !.colour = "Black"]

\* Node::drop and Box::from_raw: the weak back-pointers are cleared and the
\* record is returned to the allocator.
NullWeak(wk, v) ==
    [w \in WeakIds |->
        IF Contains(v.weak_nodes, w) THEN [wk[w] EXCEPT !.node = None]
                                     ELSE wk[w]]

\* GcCtx::system_free(s); h is the heap the caller leaves and v the record
\* read through s.
system_free(h, s, v) ==
    /\ nodes' = [h EXCEPT ![s] = FreedNode]
    /\ freed' = [freed EXCEPT ![s] = IF @ < FreeCap THEN @ + 1 ELSE @]
    /\ weak' = NullWeak(weak, v)

\* Mutant of possible_root: the node is pushed without being flagged.
possible_root_unflagged(v) ==
    IF v.colour # "Purple" THEN [v EXCEPT !.colour = "Purple"] ELSE v

\* GcCtx::possible_root: the record it leaves.
possible_root(v) ==
    IF v.colour # "Purple"
    THEN [v EXCEPT !.colour = "Purple",
                   !.buffered = IF ~v.buffered THEN TRUE ELSE @]
    ELSE v

\* GcCtx::possible_root: whether it pushes s on the root buffer.
possible_root_pushes(v) == v.colour # "Purple" /\ ~v.buffered

\* --------------------------------------------------------- public calls

\* GcCtx::new_gc
new_gc ==
    /\ Enter
    /\ nalloc < MaxNodes
    /\ nalloc' = nalloc + 1
    /\ nodes' = [nodes EXCEPT ![nalloc + 1] = NewNode]
    /\ handles' = [handles EXCEPT ![nalloc + 1] = 1]
    /\ UNCHANGED <<freed, weak, nweak, roots,
                   auto_collect_cycles_on_decrement, stack, ub, crashed,
                   cyclic, pre>>

\* Clone for Gc
clone(n) ==
    /\ Enter
    /\ handles[n] > 0
    /\ handles[n] < MaxHandles
    /\ Touch({n})
    /\ \E v \in View(n) : nodes' = Store(nodes, n, increment(v))
    /\ handles' = [handles EXCEPT ![n] = @ + 1]
    /\ UNCHANGED <<nalloc, freed, weak, nweak, roots,
                   auto_collect_cycles_on_decrement, stack, crashed,
                   cyclic, pre>>

\* Drop for Gc, up to its call of decrement: the handle is gone.
drop(n) ==
    /\ Enter
    /\ handles[n] > 0
    /\ handles' = [handles EXCEPT ![n] = @ - 1]
    /\ stack' = <<Frame("drop", n, 1, <<>>), Frame("decrement", n, 0, <<>>)>>
    /\ UNCHANGED <<nodes, nalloc, freed, weak, nweak, roots,
                   auto_collect_cycles_on_decrement, ub, crashed,
                   cyclic, pre>>

\* Drop for Gc, after decrement returned: collect_cycles when the policy
\* flag is set, then return.
drop_return ==
    /\ Running("drop")
    /\ IF Top.i = 1 /\ auto_collect_cycles_on_decrement
       THEN stack' = Rest \o <<Advance, Frame("collect_cycles", None, 0, <<>>)>>
       ELSE stack' = Rest
    /\ UNCHANGED <<nodes, nalloc, freed, handles, weak, nweak, roots,
                   auto_collect_cycles_on_decrement, ub, crashed,
                   cyclic, pre>>
    /\ UNCHANGED <<ops, budget, deferred>>

\* Mutant of add_child_list: the contains test is missing.
add_child_list_always(children, child_node) == Append(children, child_node)

\* Gc::add_child: the children list it leaves.
add_child_list(children, child_node) ==
    IF ~Contains(children, child_node)
    THEN Append(children, child_node)
    ELSE children

\* Gc::add_child
add_child(p, c) ==
    /\ Enter
    /\ handles[p] > 0
    /\ handles[c] > 0
    /\ Touch({p})
    /\ \E v \in View(p) :
         nodes' = Store(nodes, p,
                        [v EXCEPT !.children = add_child_list(@, c)])
    /\ cyclic' = (cyclic \/ Reaches(c, p))
    /\ UNCHANGED <<nalloc, freed, handles, weak, nweak, roots,
                   auto_collect_cycles_on_decrement, stack, crashed, pre>>

\* Gc::remove_child
remove_child(p, c) ==
    /\ Enter
    /\ handles[p] > 0
    /\ handles[c] > 0
    /\ Touch({p})
    /\ \E v \in View(p) :
         nodes' = Store(nodes, p, [v EXCEPT !.children = Retain(@, c)])
    /\ UNCHANGED <<nalloc, freed, handles, weak, nweak, roots,
                   auto_collect_cycles_on_decrement, stack, crashed,
                   cyclic, pre>>

\* Gc::downgrade: the WeakNode it allocates. The target's weak_nodes is not
\* touched.
downgrade_node(n) == [st |-> "live", node |-> n]

\* Gc::downgrade
downgrade(n) ==
    /\ Enter
    /\ handles[n] > 0
    /\ nweak < MaxWeak
    /\ nweak' = nweak + 1
    /\ weak' = [weak EXCEPT ![nweak + 1] = downgrade_node(n)]
    /\ UNCHANGED <<nodes, nalloc, freed, handles, roots,
                   auto_collect_cycles_on_decrement, stack, ub, crashed,
                   cyclic, pre>>

\* GcWeak::upgrade
upgrade(w) ==
    /\ Enter
    /\ weak[w].st = "live"
    /\ IF weak[w].node # None
       THEN LET n == weak[w].node
            IN  /\ handles[n] < MaxHandles
                /\ Touch({n})
                /\ \E v \in View(n) : nodes' = Store(nodes, n, increment(v))
                /\ handles' = [handles EXCEPT ![n] = @ + 1]
       ELSE UNCHANGED <<nodes, handles, ub>>
    /\ UNCHANGED <<nalloc, freed, weak, nweak, roots,
                   auto_collect_cycles_on_decrement, stack, crashed,
                   cyclic, pre>>

\* Mutant of weak_node_drop: the weak drop also gives up a unit of the count.
weak_node_drop_counted(v, w) ==
    [v EXCEPT !.weak_nodes = Retain(@, w), !.count = @ - 1]

\* Drop for WeakNode: the target record it leaves.
weak_node_drop(v, w) == [v EXCEPT !.weak_nodes = Retain(@, w)]

\* Drop for GcWeak: Box::from_raw runs Drop for WeakNode and frees it.
weak_drop(w) ==
    /\ Enter
    /\ weak[w].st = "live"
    /\ IF weak[w].node # None
       THEN LET n == weak[w].node
            IN  /\ Touch({n})
                /\ \E v \in View(n) :
                     nodes' = Store(nodes, n, weak_node_drop(v, w))
       ELSE UNCHANGED <<nodes, ub>>
    /\ weak' = [weak EXCEPT ![w].st = "dropped"]
    /\ UNCHANGED <<nalloc, freed, handles, nweak, roots,
                   auto_collect_cycles_on_decrement, stack, crashed,
                   cyclic, pre>>

\* A call of GcCtx::collect_cycles by the user.
call_collect_cycles ==
    /\ Enter
    /\ stack' = <<Frame("collect_cycles", None, 0, <<>>)>>
    /\ UNCHANGED <<nodes, nalloc, freed, handles, weak, nweak, roots,
                   auto_collect_cycles_on_decrement, ub, crashed,
                   cyclic, pre>>

\* ------------------------------------------------ GcCtx: decrement, release

\* GcCtx::decrement. The call of release is its last statement: the frame
\* becomes the frame of release. possible_root runs within the step. The
\* history records the node when its count reaches zero while it is buffered.
decrement ==
    /\ Running("decrement")
    /\ LET s == Top.s
       IN  /\ Touch({s})
           /\ \E v \in View(s) :
                LET v1 == [v EXCEPT !.count = @ - 1]
                IN  IF v1.count = 0
                    THEN /\ nodes' = Store(nodes, s, v1)
                         /\ stack' = Rest \o <<Frame("release", s, 1, <<>>)>>
                         /\ roots' = roots
                    ELSE /\ nodes' = Store(nodes, s, possible_root(v1))
                         /\ roots' = IF possible_root_pushes(v1)
                                     THEN Append(roots, s)
                                     ELSE roots
                         /\ stack' = Rest
    /\ UNCHANGED <<nalloc, freed, handles, weak, nweak,
                   auto_collect_cycles_on_decrement, crashed,
                   cyclic, pre>>
    /\ deferred' = IF ~IsFreed(Top.s) /\ nodes[Top.s].count = 1
                        /\ nodes[Top.s].buffered
                   THEN deferred \cup {Top.s}
                   ELSE deferred
    /\ UNCHANGED <<ops, budget>>

\* GcCtx::release: whether release frees the node itself.
release_frees(v) == ~v.buffered

\* GcCtx::release: one iteration of the loop over the children, or the
\* statements after the loop.
release ==
    /\ Running("release")
    /\ LET s == Top.s
       IN  /\ Touch({s})
           /\ \E v \in View(s) :
                IF Top.i <= Len(v.children)
                THEN /\ stack' = Call("decrement", v.children[Top.i])
                     /\ UNCHANGED <<nodes, freed, weak>>
                ELSE /\ stack' = Rest
                     /\ LET h == Store(nodes, s, [v EXCEPT !.colour = "Black"])
                        IN  IF release_frees(v)
                            THEN system_free(h, s, v)
                            ELSE /\ nodes' = h
                                 /\ UNCHANGED <<freed, weak>>
    /\ UNCHANGED <<nalloc, handles, nweak, roots,
                   auto_collect_cycles_on_decrement, crashed,
                   cyclic, pre>>
    /\ UNCHANGED <<ops, budget, deferred>>

\* ------------------------------------------------ GcCtx: cycle collection

\* What collect_cycles records of the heap when it begins.
Snapshot ==
    [count |-> [n \in Nodes |-> nodes[n].count], freed |-> freed,
     children |-> [n \in Nodes |-> nodes[n].children]]

\* GcCtx::collect_cycles: the three passes in order. Each pass clones the
\* root buffer when it begins; collect_roots also clears it. The history of
\* deferred nodes ends when mark_roots has returned.
collect_cycles ==
    /\ Running("collect_cycles")
    /\ \/ /\ Top.i = 0
          /\ stack' = Rest \o <<Advance, Frame("mark_roots", None, 1, roots)>>
          /\ pre' = Snapshot
          /\ roots' = roots
       \/ /\ Top.i = 1
          /\ stack' = Rest \o <<Advance, Frame("scan_roots", None, 1, roots)>>
          /\ UNCHANGED <<pre, roots>>
       \/ /\ Top.i = 2
          /\ stack' = Rest \o <<Advance, Frame("collect_roots", None, 1, roots)>>
          /\ roots' = <<>>
          /\ pre' = pre
       \/ /\ Top.i = 3
          /\ stack' = Rest
          /\ pre' = NoPre
          /\ roots' = roots
    /\ UNCHANGED <<nodes, nalloc, freed, handles, weak, nweak,
                   auto_collect_cycles_on_decrement, ub, crashed, cyclic>>
    /\ deferred' = IF Top.i = 1 THEN {} ELSE deferred
    /\ UNCHANGED <<ops, budget>>

\* GcCtx::mark_roots: whether the root is marked gray (else it is unbuffered).
mark_roots_marks(v) == v.colour = "Purple" /\ v.count > 0

\* GcCtx::mark_roots: whether an unbuffered root is freed.
mark_roots_frees(v) == v.colour = "Black" /\ v.count = 0

\* GcCtx::mark_roots: one iteration over the snapshot.
mark_roots ==
    /\ Running("mark_roots")
    /\ IF Top.i > Len(Top.snap)
       THEN /\ stack' = Rest
            /\ UNCHANGED <<nodes, freed, weak, roots, ub>>
       ELSE LET s == Top.snap[Top.i]
            IN  /\ Touch({s})
                /\ \E v \in View(s) :
                     IF mark_roots_marks(v)
                     THEN /\ stack' = Call("mark_gray", s)
                          /\ UNCHANGED <<nodes, freed, weak, roots>>
                     ELSE /\ stack' = Rest \o <<Advance>>
                          /\ roots' = Retain(roots, s)
                          /\ LET h == Store(nodes, s,
                                            [v EXCEPT !.buffered = FALSE])
                             IN  IF mark_roots_frees(v)
                                 THEN system_free(h, s, v)
                                 ELSE /\ nodes' = h
                                      /\ UNCHANGED <<freed, weak>>
    /\ UNCHANGED <<nalloc, handles, nweak,
                   auto_collect_cycles_on_decrement, crashed,
                   cyclic, pre>>
    /\ UNCHANGED <<ops, budget, deferred>>

\* GcCtx::scan_roots: one iteration over the snapshot.
scan_roots ==
    /\ Running("scan_roots")
    /\ IF Top.i > Len(Top.snap)
       THEN stack' = Rest
       ELSE stack' = Call("scan", Top.snap[Top.i])
    /\ UNCHANGED <<nodes, nalloc, freed, handles, weak, nweak, roots,
                   auto_collect_cycles_on_decrement, ub, crashed,
                   cyclic, pre>>
    /\ UNCHANGED <<ops, budget, deferred>>

\* GcCtx::collect_roots: one iteration over the snapshot.
collect_roots ==
    /\ Running("collect_roots")
    /\ IF Top.i > Len(Top.snap)
       THEN /\ stack' = Rest
            /\ UNCHANGED <<nodes, ub>>
       ELSE LET s == Top.snap[Top.i]
            IN  /\ Touch({s})
                /\ \E v \in View(s) :
                     nodes' = Store(nodes, s, [v EXCEPT !.buffered = FALSE])
                /\ stack' = Call("collect_white", s)
    /\ UNCHANGED <<nalloc, freed, handles, weak, nweak, roots,
                   auto_collect_cycles_on_decrement, crashed,
                   cyclic, pre>>
    /\ UNCHANGED <<ops, budget, deferred>>

\* Mutant of mark_gray_visits: the colour test is missing.
mark_gray_visits_always(v) == TRUE

\* GcCtx::mark_gray: whether the node is coloured and its children visited.
mark_gray_visits(v) == v.colour # "Gray"

\* GcCtx::mark_gray: what it subtracts from a child's count per edge.
mark_gray_child(vt) == [vt EXCEPT !.count = @ - 1]

\* GcCtx::mark_gray: the colour test and the colouring (i = 0), then one
\* iteration of the loop over the children.
mark_gray ==
    /\ Running("mark_gray")
    /\ LET s == Top.s
       IN  \E v \in View(s) :
             IF Top.i = 0
             THEN /\ Touch({s})
                  /\ IF mark_gray_visits(v)
                     THEN /\ nodes' = Store(nodes, s,
                                            [v EXCEPT !.colour = "Gray"])
                          /\ stack' = Rest \o <<Advance>>
                     ELSE /\ nodes' = nodes
                          /\ stack' = Rest
             ELSE IF Top.i <= Len(v.children)
             THEN LET t == v.children[Top.i]
                  IN  /\ Touch({s, t})
                      /\ \E vt \in View(t) :
                           nodes' = Store(nodes, t, mark_gray_child(vt))
                      /\ stack' = Call("mark_gray", t)
             ELSE /\ Touch({s})
                  /\ nodes' = nodes
                  /\ stack' = Rest
    /\ UNCHANGED <<nalloc, freed, handles, weak, nweak, roots,
                   auto_collect_cycles_on_decrement, crashed,
                   cyclic, pre>>
    /\ UNCHANGED <<ops, budget, deferred>>

\* GcCtx::scan: the tests (i = 0), where the call of scan_black is the last
\* statement of its branch, then one iteration of the loop over the children.
scan ==
    /\ Running("scan")
    /\ LET s == Top.s
       IN  /\ Touch({s})
           /\ \E v \in View(s) :
                IF Top.i = 0
                THEN IF v.colour = "Gray"
                     THEN IF v.count > 0
                          THEN /\ nodes' = nodes
                               /\ stack' = Rest \o
                                    <<Frame("scan_black", s, 0, <<>>)>>
                          ELSE /\ nodes' = Store(nodes, s,
                                                 [v EXCEPT !.colour = "White"])
                               /\ stack' = Rest \o <<Advance>>
                     ELSE /\ nodes' = nodes
                          /\ stack' = Rest
                ELSE /\ nodes' = nodes
                     /\ IF Top.i <= Len(v.children)
                        THEN stack' = Call("scan", v.children[Top.i])
                        ELSE stack' = Rest
    /\ UNCHANGED <<nalloc, freed, handles, weak, nweak, roots,
                   auto_collect_cycles_on_decrement, crashed,
                   cyclic, pre>>
    /\ UNCHANGED <<ops, budget, deferred>>

\* GcCtx::scan_black: what it adds back to a child's count per edge.
scan_black_child(vt) == [vt EXCEPT !.count = @ + 1]

\* GcCtx::scan_black: the colouring (i = 0), then one iteration of the loop
\* over the children.
scan_black ==
    /\ Running("scan_black")
    /\ LET s == Top.s
       IN  \E v \in View(s) :
             IF Top.i = 0
             THEN /\ Touch({s})
                  /\ nodes' = Store(nodes, s, [v EXCEPT !.colour = "Black"])
                  /\ stack' = Rest \o <<Advance>>
             ELSE IF Top.i <= Len(v.children)
             THEN LET t == v.children[Top.i]
                  IN  /\ Touch({s, t})
                      /\ \E vt \in View(t) :
                           /\ nodes' = Store(nodes, t, scan_black_child(vt))
                           /\ IF vt.colour # "Black"
                              THEN stack' = Call("scan_black", t)
                              ELSE stack' = Rest \o <<Advance>>
             ELSE /\ Touch({s})
                  /\ nodes' = nodes
                  /\ stack' = Rest
    /\ UNCHANGED <<nalloc, freed, handles, weak, nweak, roots,
                   auto_collect_cycles_on_decrement, crashed,
                   cyclic, pre>>
    /\ UNCHANGED <<ops, budget, deferred>>

\* GcCtx::collect_white: whether the node is collected.
collect_white_collects(v) == v.colour = "White" /\ ~v.buffered

\* GcCtx::collect_white: the test and the recolouring (i = 0), then one
\* iteration of the loop over the children, then system_free.
collect_white ==
    /\ Running("collect_white")
    /\ LET s == Top.s
       IN  /\ Touch({s})
           /\ \E v \in View(s) :
                IF Top.i = 0
                THEN /\ IF collect_white_collects(v)
                        THEN /\ nodes' = Store(nodes, s,
                                               [v EXCEPT !.colour = "Black"])
                             /\ stack' = Rest \o <<Advance>>
                        ELSE /\ nodes' = nodes
                             /\ stack' = Rest
                     /\ UNCHANGED <<freed, weak>>
                ELSE IF Top.i <= Len(v.children)
                THEN /\ stack' = Call("collect_white", v.children[Top.i])
                     /\ UNCHANGED <<nodes, freed, weak>>
                ELSE /\ stack' = Rest
                     /\ system_free(nodes, s, v)
    /\ UNCHANGED <<nalloc, handles, nweak, roots,
                   auto_collect_cycles_on_decrement, crashed,
                   cyclic, pre>>
    /\ UNCHANGED <<ops, budget, deferred>>

\* ------------------------------------------------------------ the process

\* The nodes the next step of the innermost frame dereferences.
NextDeref ==
    IF stack = <<>> THEN {}
    ELSE IF Top.fn \in {"mark_roots", "collect_roots"}
    THEN IF Top.i <= Len(Top.snap) THEN {Top.snap[Top.i]} ELSE {}
    ELSE IF Top.fn \in {"mark_gray", "scan_black"}
              /\ Top.i >= 1 /\ ~IsFreed(Top.s)
              /\ Top.i <= Len(nodes[Top.s].children)
    THEN {Top.s, nodes[Top.s].children[Top.i]}
    ELSE IF Top.fn \in {"decrement", "release", "mark_gray", "scan",
                        "scan_black", "collect_white"}
    THEN {Top.s}
    ELSE {}

\* The access to freed memory that comes next stops the process (a fault)
\* instead of yielding a value.
Crash ==
    /\ ~crashed
    /\ \/ \E s \in NextDeref : IsFreed(s)
       \/ /\ stack = <<>>
          /\ \/ \E n \in Allocated : IsFreed(n) /\ handles[n] > 0
             \/ \E w \in WeakIds :
                  /\ weak[w].st = "live"
                  /\ weak[w].node # None
                  /\ IsFreed(weak[w].node)
    /\ crashed' = TRUE
    /\ stack' = <<>>
    /\ pre' = NoPre
    /\ UNCHANGED <<nodes, nalloc, freed, handles, weak, nweak, roots,
                   auto_collect_cycles_on_decrement, ub, cyclic>>
    /\ deferred' = {}
    /\ UNCHANGED <<ops, budget>>

Next ==
    \/ new_gc
    \/ \E n \in Allocated : clone(n)
    \/ \E n \in Allocated : drop(n)
    \/ drop_return
    \/ \E p, c \in Allocated : add_child(p, c)
    \/ \E p, c \in Allocated : remove_child(p, c)
    \/ \E n \in Allocated : downgrade(n)
    \/ \E w \in WeakIds : upgrade(w)
    \/ \E w \in WeakIds : weak_drop(w)
    \/ call_collect_cycles
    \/ decrement
    \/ release
    \/ collect_cycles
    \/ mark_roots
    \/ scan_roots
    \/ collect_roots
    \/ mark_gray
    \/ scan
    \/ scan_black
    \/ collect_white
    \/ Crash

Spec == Init /\ [][Next]_vars

NextDeep ==
    \/ new_gc
    \/ \E n \in Allocated : clone(n)
    \/ \E n \in Allocated : drop(n)
    \/ drop_return
    \/ \E p, c \in Allocated : add_child(p, c)
    \/ decrement
    \/ release
    \/ collect_cycles
    \/ mark_roots
    \/ scan_roots
    \/ collect_roots
    \/ mark_gray
    \/ scan
    \/ scan_black
    \/ collect_white
    \/ Crash

SpecDeep == InitDeep /\ [][NextDeep]_vars

InitFair ==
    /\ InitCtx
    /\ budget = [ops |-> MaxFairOps, ub |-> MaxUB]

\* The program keeps executing: a routine that is running takes its next step
\* (and a caller with calls left makes one).
FairSpec == InitFair /\ [][Next]_vars /\ WF_vars(Next)

\* --------------------------------------------------------- type invariant

TypeOK ==
    /\ nalloc \in 0..MaxNodes
    /\ \A n \in Nodes :
         /\ nodes[n].colour \in Colours
         /\ nodes[n].buffered \in BOOLEAN
         /\ Range(nodes[n].children) \subseteq Allocated
         /\ handles[n] \in 0..MaxHandles
         /\ freed[n] \in 0..FreeCap
    /\ Range(roots) \subseteq Allocated
    /\ ub \in 0..budget.ub
    /\ ops \in 0..budget.ops

\* ------------------------------------------------------- graph predicates

\* Every handle has been dropped (and some node was allocated).
AllDropped == nalloc > 0 /\ \A n \in Nodes : handles[n] = 0

\* Node n lies on a cycle of declared edges.
OnCycle(n) == \E c \in ChildrenOf(n) : Reaches(c, n)

\* No node to which a live strong handle refers reaches n.
Unreachable(n) ==
    \A m \in Live : handles[m] > 0 => ~Reaches(m, n)

\* Some frame of collect_cycles is on the stack.
InCollect == \E k \in 1..Len(stack) : stack[k].fn = "collect_cycles"

\* collect_cycles has run its three passes and is about to return.
CollectReturns == Running("collect_cycles") /\ Top.i = 3

\* The edges of the heap as collect_cycles found it.
RECURSIVE PreReachFrom(_, _)
PreReachFrom(S, k) ==
    IF k = 0 THEN S
    ELSE PreReachFrom(S \cup UNION {Range(pre.children[n]) : n \in S}, k - 1)

PreReaches(a, b) == b \in PreReachFrom({a}, MaxNodes)

\* When collect_cycles began, n was on a cycle one of whose members was held
\* by a strong handle.
PreHeldCycle(n) ==
    /\ pre.freed[n] = 0
    /\ \E m \in Allocated :
         /\ pre.freed[m] = 0
         /\ handles[m] > 0
         /\ \E c \in Range(pre.children[n]) : PreReaches(c, m)
         /\ PreReaches(m, n)

\* ----------------------------------------------------------------- claims

\* C1: no Node is freed (system_free) while a live strong Handle refers to it.
C1_NoFreeWhileHeld ==
    [][\A n \in Nodes : freed'[n] > freed[n] => handles[n] = 0]_vars

\* C2: for an acyclic graph, once every strong Handle has been dropped, every
\* Node has been freed exactly once.
C2_AcyclicReclaimed ==
    (Idle /\ AllDropped /\ ~cyclic) => \A n \in Allocated : freed[n] = 1

\* C3: after all strong Handles have been dropped and collect_cycles has been
\* invoked, every Node has been freed exactly once and the root buffer is
\* empty.
C3_CyclicReclaimed ==
    (CollectReturns /\ Len(stack) = 1 /\ AllDropped) =>
        /\ \A n \in Allocated : freed[n] = 1
        /\ roots = <<>>

\* C4: if a member of a cycle is held by a strong Handle when collect_cycles
\* runs, the call frees no member of the cycle and every member's count is,
\* when the call returns, what it was before the call.
C4_Rescue ==
    CollectReturns =>
        \A n \in Allocated :
            PreHeldCycle(n) =>
                /\ freed[n] = pre.freed[n]
                /\ nodes[n].count = pre.count[n]

\* C5: once the target of a Weak Handle has been freed, upgrade on it returns
\* None: upgrade never returns a Handle to a freed Node.
C5_WeakInvalidation ==
    [][\A w \in WeakIds :
         (upgrade(w) /\ weak[w].node # None) => ~IsFreed(weak[w].node)]_vars

\* C6: dropping a Weak Handle whose target is alive does not free the target,
\* leaves its count, colour and buffered flag as they were, and every other
\* Weak Handle to the target still upgrades to a strong Handle.
C6_WeakDropFrame ==
    [][\A w \in WeakIds :
         (weak_drop(w) /\ weak[w].node # None /\ ~IsFreed(weak[w].node)) =>
            LET n == weak[w].node
            IN  /\ freed' = freed
                /\ nodes'[n].count = nodes[n].count
                /\ nodes'[n].colour = nodes[n].colour
                /\ nodes'[n].buffered = nodes[n].buffered
                /\ \A w2 \in WeakIds \ {w} :
                     (weak[w2].st = "live" /\ weak[w2].node = n) =>
                        (weak'[w2].st = "live" /\ weak'[w2].node = n)]_vars

\* C6 witness: a Weak Handle was dropped while its target is alive, and
\* another Weak Handle to the same target is live.
C6_Witness ==
    \E w, w2 \in WeakIds :
        /\ weak[w].st = "dropped"
        /\ weak[w].node # None
        /\ ~IsFreed(weak[w].node)
        /\ weak[w2].st = "live"
        /\ weak[w2].node = weak[w].node

\* C7: add_child(x) applied twice to a parent leaves the children list that
\* one application leaves, and no Node's children list holds the same child
\* twice.
C7_IdempotentEdges ==
    \A p \in Live :
        /\ NoDup(nodes[p].children)
        /\ \A c \in Allocated :
             LET once == add_child_list(nodes[p].children, c)
             IN  add_child_list(once, c) = once

\* C7 witness: a parent with two declared children, one of them itself.
C7_Witness ==
    \E p \in Live : Len(nodes[p].children) = 2 /\ Contains(nodes[p].children, p)

\* The part of collect_roots' snapshot it has not visited yet.
PendingRoots ==
    UNION {{stack[k].snap[j] : j \in stack[k].i..Len(stack[k].snap)} :
           k \in {k \in 1..Len(stack) : stack[k].fn = "collect_roots"}}

\* C8 as stated: in every state each Node occurs at most once in the root
\* buffer and its buffered flag is true exactly when it is in the buffer.
C8_BufferedMirrorsRoots ==
    /\ NoDup(roots)
    /\ \A n \in Live : nodes[n].buffered <=> Contains(roots, n)

\* C8 as amended: live Nodes occur at most once in the root buffer, and the
\* buffered flag of a live Node is true exactly when the Node is in the buffer
\* or in the part of collect_roots' snapshot not visited yet.
C8_BufferedMirrorsRootsOrSnapshot ==
    /\ \A j, k \in 1..Len(roots) :
         (j # k /\ ~IsFreed(roots[j])) => roots[j] # roots[k]
    /\ \A n \in Live :
         nodes[n].buffered <=> (Contains(roots, n) \/ n \in PendingRoots)

\* C8 witness: inside collect_roots a live Node is still flagged buffered
\* though the root buffer was cleared.
C8_Witness ==
    /\ Running("collect_roots")
    /\ roots = <<>>
    /\ \E n \in Live : nodes[n].buffered /\ n \in PendingRoots

\* C9: outside collect_cycles, the count of every allocated Node is the number
\* of live strong Handles to it plus the number of Nodes whose children list
\* holds it.
C9_CountInvariant ==
    Idle =>
        \A n \in Live :
            nodes[n].count =
                handles[n] + Cardinality({p \in Live : n \in ChildrenOf(p)})

\* C10: the Context is created with auto-collect on, and when the drop of a
\* strong Handle returns, every cycle that no live Handle reaches has been
\* freed.
C10_AutoCollect ==
    /\ auto_collect_cycles_on_decrement
    /\ (Running("drop") /\ Top.i = 2) =>
          \A n \in Live : ~(OnCycle(n) /\ Unreachable(n))

\* C11: every call of system_free, from release, from mark_roots and from
\* collect_white, is made on a Node whose count is exactly 0 and which is not
\* in the root buffer at that moment. (mark_roots removes the Node from the
\* buffer before it calls system_free, within the same step.)
C11_FreeAtZeroUnbuffered ==
    [][\A n \in Nodes :
         (freed'[n] > freed[n] /\ ~IsFreed(n)) =>
            /\ nodes[n].count = 0
            /\ ~Contains(roots', n)]_vars

\* The routines of the collector that C12 lists.
CollectorRoutines ==
    {"release", "mark_roots", "mark_gray", "scan", "scan_black",
     "collect_roots", "collect_white"}

\* collect_white, called by collect_white on a child, is about to read a Node
\* that this collect_cycles call has freed.
CollectWhiteVisitsFreed ==
    /\ Running("collect_white")
    /\ Top.i = 0
    /\ Len(stack) >= 2
    /\ stack[Len(stack) - 1].fn = "collect_white"
    /\ IsFreed(Top.s)
    /\ pre.freed[Top.s] = 0

\* C12: system_free is called at most once per Node, and no collector routine
\* (release, mark_roots, mark_gray, scan, scan_black, collect_roots,
\* collect_white) reads or writes a field of a Node after system_free was
\* called on it; in particular collect_white of a later root does not visit
\* an earlier root that collect_roots has already freed.
C12_NoUseAfterFree ==
    /\ \A n \in Nodes : freed[n] <= 1
    /\ (stack # <<>> /\ Top.fn \in CollectorRoutines) =>
          \A s \in NextDeref : ~IsFreed(s)
    /\ ~CollectWhiteVisitsFreed

\* C13: a Node's count is never negative in any reachable state, the states
\* inside a release cascade and inside mark_gray included.
C13_CountNonNegative == \A n \in Live : nodes[n].count >= 0

\* C14: every WeakNode whose target is Node n appears exactly once in
\* n.weak_nodes (downgrade registers it there), so that freeing n clears the
\* target of every WeakNode that pointed at n.
C14_WeakBackPointers ==
    \A w \in WeakIds :
        (weak[w].st = "live" /\ weak[w].node # None) =>
            LET n == weak[w].node
            IN  /\ ~IsFreed(n)
                /\ Cardinality({k \in 1..Len(nodes[n].weak_nodes) :
                                   nodes[n].weak_nodes[k] = w}) = 1

\* C15: whenever decrement leaves a Node's count non-zero, then on return from
\* decrement the Node is Purple, its buffered flag is true and it is in the
\* root buffer, whatever its colour and flag were before.
C15_DecrementBuffers ==
    [][(decrement /\ ~IsFreed(Top.s) /\ nodes'[Top.s].count # 0) =>
          /\ nodes'[Top.s].colour = "Purple"
          /\ nodes'[Top.s].buffered
          /\ Contains(roots', Top.s)]_vars

\* C16: when a Node's count reaches zero while it is in the root buffer,
\* release sets it Black and neither frees it nor removes it from the root
\* buffer; the mark_roots pass of the next collect_cycles then removes it from
\* the buffer and frees it, exactly once.
C16_DeferredFree ==
    [][/\ (release /\ ~IsFreed(Top.s) /\ Top.s \in deferred
                   /\ Top.i > Len(nodes[Top.s].children)) =>
             /\ nodes'[Top.s].colour = "Black"
             /\ freed' = freed
             /\ roots' = roots
       /\ (collect_cycles /\ Top.i = 1) =>
             \A n \in deferred : freed[n] = 1 /\ ~Contains(roots, n)]_vars

\* C17: mark_roots never drops from the root buffer a Node that is still
\* allocated and is Purple with a count that is not greater than zero: every
\* entry it finds so and removes without freeing was freed by an earlier
\* release.
C17_PurpleZeroAlreadyFreed ==
    [][(mark_roots /\ Top.i <= Len(Top.snap)) =>
          LET s == Top.snap[Top.i]
          IN  (~IsFreed(s) /\ nodes[s].colour = "Purple") =>
                  nodes[s].count > 0]_vars

\* The three passes of collect_cycles.
Passes == {"mark_roots", "scan_roots", "collect_roots"}

InLoop(f) ==
    \/ f.fn = "release"
    \/ f.fn \in {"mark_gray", "scan", "scan_black", "collect_white"} /\ f.i >= 1

\* No routine is inside the children loop of an allocated Node while an
\* outer frame of the same routine is inside the children loop of that Node.
NoReentry ==
    \A j, k \in 1..Len(stack) :
        (j < k /\ InLoop(stack[j]) /\ InLoop(stack[k])
               /\ stack[j].fn = stack[k].fn /\ stack[j].s = stack[k].s) =>
            IsFreed(stack[j].s)

\* C19: every call of collect_cycles and every decrement/release cascade
\* terminates, on graphs with cycles, self edges and shared nodes too: a call
\* that is running returns (or the process stops on freed memory), and no
\* routine re-enters the children loop of a Node it is already inside.
C19_Termination ==
    /\ (stack # <<>>) ~> (stack = <<>>)
    /\ []NoReentry

\* C19 witness: mark_gray reaches, along a cycle of edges, a Node whose
\* children loop an outer mark_gray frame is inside.
C19_Witness ==
    /\ Running("mark_gray")
    /\ Top.i = 0
    /\ ~IsFreed(Top.s)
    /\ OnCycle(Top.s)
    /\ \E k \in 1..(Len(stack) - 1) :
         stack[k].fn = "mark_gray" /\ stack[k].s = Top.s /\ stack[k].i >= 1

\* C20: when a collect_cycles call returns, the root buffer is empty, no
\* allocated Node has its buffered flag set and every allocated Node is Black.
C20_Quiescence ==
    CollectReturns =>
        /\ roots = <<>>
        /\ \A n \in Live : ~nodes[n].buffered /\ nodes[n].colour = "Black"

====
